---- MODULE Spec2Model ----
(***************************************************************************)
(* A model of the tls-sig-api crate (src/src/lib.rs, b64_url_safe.rs):     *)
(* the signer TlsSigApiVer2 { sdkappid, tls_ver, secret }, key rotation    *)
(* (update_key), and the signing pipeline gen_sign / gen_sign_with_time /  *)
(* hmac_sha256 / b64_url_safe::encode.                                     *)
(*                                                                         *)
(* Text is modelled character by character: a string is a sequence of      *)
(* one-character strings.  Byte strings are sequences of 0..255.           *)
(* The SHA-256 compression function is not computed: an HMAC digest is the *)
(* term [key |-> the 64-byte key block, msg |-> the message], i.e. the     *)
(* hash is taken to be collision free.  Everything around it (key          *)
(* padding, message layout, number formatting, base64, the character       *)
(* substitution, the JSON object's member order) is computed.              *)
(***************************************************************************)
EXTENDS Integers, Sequences, FiniteSets, TLC

VARIABLES
    sdkappid,   \* TlsSigApiVer2.sdkappid : u64
    tls_ver,    \* TlsSigApiVer2.tls_ver  : &'static str
    secret,     \* TlsSigApiVer2.secret   : String, as its bytes
    out,        \* <<>> or <<r>>: the most recent completed signing call
    prev,       \* <<>> or <<r>>: the completed signing call before it
    key_arg,    \* history: the key last passed to new / update_key
    rotated,    \* history: update_key changed the secret since the last call
    pc,         \* per thread: "idle", "hmac" (before line 111), "ret" (after 114)
    frame,      \* per thread: the locals of the call in progress
    tok,        \* per thread: <<>> or <<r>>, the thread's last completed call
    readers,    \* threads holding a shared borrow (&self) of the signer
    writer,     \* <<>>, or <<[t, key]>>: thread t is inside update_key(key)
    b64_msg,    \* argument of the last b64_url_safe::encode call
    b64_ret     \* its return value

vars == <<sdkappid, tls_ver, secret, out, prev, key_arg, rotated,
          pc, frame, tok, readers, writer, b64_msg, b64_ret>>

signer_vars == <<sdkappid, tls_ver, secret>>
seq_vars    == <<out, prev, key_arg, rotated>>
conc_vars   == <<pc, frame, tok, readers, writer>>
b64_vars    == <<b64_msg, b64_ret>>

(***************************************************************************)
(* Bounds of the model.                                                    *)
(***************************************************************************)
\* threads sharing one signer
NumThreads == 2
\* longest byte string handed to b64_url_safe::encode
MaxLen == 3

(***************************************************************************)
(* Text helpers.                                                           *)
(***************************************************************************)
NL == "\n"

Range(s) == {s[i] : i \in 1..Len(s)}

IsPrefix(p, s) == Len(p) <= Len(s) /\ SubSeq(s, 1, Len(p)) = p

IsSuffix(p, s) == Len(p) <= Len(s) /\ SubSeq(s, Len(s) - Len(p) + 1, Len(s)) = p

DropPrefix(p, s) == SubSeq(s, Len(p) + 1, Len(s))

\* The pieces of s between newlines; a text ending in a newline has a last,
\* empty piece.
RECURSIVE SplitLines(_)
SplitLines(s) ==
    IF \A i \in 1..Len(s) : s[i] # NL
    THEN <<s>>
    ELSE LET i == CHOOSE j \in 1..Len(s) :
                      s[j] = NL /\ \A k \in 1..(j - 1) : s[k] # NL
         IN  <<SubSeq(s, 1, i - 1)>> \o SplitLines(SubSeq(s, i + 1, Len(s)))

\* str::replace(from, to) for single characters
Replace(s, from, to) == [i \in 1..Len(s) |-> IF s[i] = from THEN to ELSE s[i]]

(***************************************************************************)
(* Integers.  Millisecond counts (i64) exceed TLC's 32-bit integers, so    *)
(* an i64 is held as sign and magnitude split at 1000:                     *)
(*     [neg, q, r]  stands for  (-1)^neg * (1000 * q + r),  0 <= r < 1000. *)
(***************************************************************************)
DecDigits == <<"0","1","2","3","4","5","6","7","8","9">>

\* Display of a natural number: base 10, no leading zeros
RECURSIVE ToDec(_)
ToDec(n) ==
    IF n < 10 THEN <<DecDigits[n + 1]>>
    ELSE ToDec(n \div 10) \o <<DecDigits[(n % 10) + 1]>>

Pad3(n) == <<DecDigits[(n \div 100) + 1], DecDigits[((n \div 10) % 10) + 1],
             DecDigits[(n % 10) + 1]>>

\* Display of an i64 (format!("{}", x), serde_json's number output)
DisplayI64(x) ==
    (IF x.neg THEN <<"-">> ELSE <<>>)
        \o (IF x.q = 0 THEN ToDec(x.r) ELSE ToDec(x.q) \o Pad3(x.r))

I64(n) == [neg |-> n < 0,
           q |-> (IF n < 0 THEN -n ELSE n) \div 1000,
           r |-> (IF n < 0 THEN -n ELSE n) % 1000]

\* DateTime<Utc> is [secs |-> unix seconds, ms |-> millisecond of the second],
\* at or after the epoch
\* chrono: timestamp() * 1000 + timestamp_subsec_millis()
timestamp_in_secs(dt) == I64(dt.secs)
timestamp_millis(dt) == [neg |-> FALSE, q |-> dt.secs, r |-> dt.ms]

\* Duration is chrono's [secs |-> floor seconds, ms |-> 0..999 on top]
\* chrono: num_seconds() * 1000 + nanos_mod_sec() / 1_000_000, both rounding
\* toward zero.
num_seconds(d) == IF d.secs < 0 /\ d.ms > 0 THEN d.secs + 1 ELSE d.secs
num_seconds_as_i64(d) == I64(num_seconds(d))
num_milliseconds(d) ==
    LET s == num_seconds(d)
        m == IF d.secs < 0 /\ d.ms > 0 THEN d.ms - 1000 ELSE d.ms
    IN  IF s >= 0 /\ m >= 0
        THEN [neg |-> FALSE, q |-> s, r |-> m]
        ELSE [neg |-> TRUE, q |-> -s, r |-> -m]

(***************************************************************************)
(* base64::encode_config(bytes, base64::STANDARD): '+' '/' and '=' padding *)
(***************************************************************************)
B64Alphabet ==
    <<"A","B","C","D","E","F","G","H","I","J","K","L","M","N","O","P","Q",
      "R","S","T","U","V","W","X","Y","Z","a","b","c","d","e","f","g","h",
      "i","j","k","l","m","n","o","p","q","r","s","t","u","v","w","x","y",
      "z","0","1","2","3","4","5","6","7","8","9","+","/">>

B64Char(n) == B64Alphabet[n + 1]

RECURSIVE base64_encode(_)
base64_encode(b) ==
    IF Len(b) = 0 THEN <<>>
    ELSE IF Len(b) = 1 THEN
        <<B64Char(b[1] \div 4), B64Char((b[1] % 4) * 16), "=", "=">>
    ELSE IF Len(b) = 2 THEN
        <<B64Char(b[1] \div 4), B64Char((b[1] % 4) * 16 + b[2] \div 16),
          B64Char((b[2] % 16) * 4), "=">>
    ELSE
        <<B64Char(b[1] \div 4), B64Char((b[1] % 4) * 16 + b[2] \div 16),
          B64Char((b[2] % 16) * 4 + b[3] \div 64), B64Char(b[3] % 64)>>
            \o base64_encode(SubSeq(b, 4, Len(b)))

(***************************************************************************)
(* b64_url_safe::encode                                                    *)
(***************************************************************************)
encode_merging(msg) ==
    Replace(Replace(Replace(base64_encode(msg), "+", "*"), "/", "_"), "=", "_")

encode(msg) ==
    Replace(Replace(Replace(base64_encode(msg), "+", "*"), "/", "-"), "=", "_")

(***************************************************************************)
(* ring::hmac with HMAC_SHA256.  Key::new prepares the key block: a key    *)
(* longer than the block is replaced by its digest, and the key is then    *)
(* padded with zero bytes to the block length.  sign's digest is the term  *)
(* of the key block and the data.                                          *)
(***************************************************************************)
HMAC_BLOCK_LEN == 64

Zeros(n) == [i \in 1..n |-> 0]

\* (the digest of a long key is kept as the term of that key)
hmac_Key_new(key_value) ==
    IF Len(key_value) > HMAC_BLOCK_LEN
    THEN [hashed |-> TRUE, block |-> key_value]
    ELSE [hashed |-> FALSE,
          block |-> key_value \o Zeros(HMAC_BLOCK_LEN - Len(key_value))]

hmac_sign(key, data) == [key |-> key, msg |-> data]

NoMac == [key |-> [hashed |-> FALSE, block |-> <<>>], msg |-> <<>>]

(***************************************************************************)
(* serde_json values.  An object is the sequence of its members in         *)
(* iteration order; a member is [k |-> name, v |-> value].  A value is     *)
(* [type, text, mac]: a number carries its digits, a string its            *)
(* characters, and the signature string (type "digest_b64") stands for     *)
(* the standard base64 text of the digest in mac.                          *)
(***************************************************************************)
JString(s) == [type |-> "string", text |-> s, mac |-> NoMac]
JNumber(digits) == [type |-> "number", text |-> digits, mac |-> NoMac]
JDigest(sig) == [type |-> "digest_b64", text |-> <<>>, mac |-> sig]

\* dict[key] = value: a new member goes last, an existing one keeps its place
json_index_set(dict, key, value) ==
    IF \E i \in 1..Len(dict) : dict[i].k = key
    THEN [i \in 1..Len(dict) |->
             IF dict[i].k = key THEN [k |-> key, v |-> value] ELSE dict[i]]
    ELSE Append(dict, [k |-> key, v |-> value])

RECURSIVE json_escape(_)
json_escape(s) ==
    IF s = <<>> THEN <<>>
    ELSE (CASE Head(s) = NL   -> <<"\\", "n">>
            [] Head(s) = "\"" -> <<"\\", "\"">>
            [] Head(s) = "\\" -> <<"\\", "\\">>
            [] OTHER          -> <<Head(s)>>) \o json_escape(Tail(s))

json_quote(s) == <<"\"">> \o json_escape(s) \o <<"\"">>

\* Value::to_string of an object: its members in iteration order, each as
\* [name, value, mac] (the braces, colons and commas are left out).
to_string(dict) ==
    [i \in 1..Len(dict) |->
        [name  |-> json_quote(dict[i].k),
         value |-> IF dict[i].v.type = "number" THEN dict[i].v.text
                   ELSE json_quote(dict[i].v.text),
         mac   |-> dict[i].v.mac]]

MemberNames(dict) == [i \in 1..Len(dict) |-> dict[i].k]

HasMember(dict, key) == \E i \in 1..Len(dict) : dict[i].k = key

Member(dict, key) == dict[CHOOSE i \in 1..Len(dict) : dict[i].k = key].v

(***************************************************************************)
(* Protocol literals.                                                      *)
(***************************************************************************)
TLS_VER_2_0 == <<"2", ".", "0">>

K_VER        == <<"T","L","S",".","v","e","r">>
K_IDENTIFIER == <<"T","L","S",".","i","d","e","n","t","i","f","i","e","r">>
K_SDKAPPID   == <<"T","L","S",".","s","d","k","a","p","p","i","d">>
K_EXPIRE     == <<"T","L","S",".","e","x","p","i","r","e">>
K_TIME       == <<"T","L","S",".","t","i","m","e">>
K_USERBUF    == <<"T","L","S",".","u","s","e","r","b","u","f">>
K_SIG        == <<"T","L","S",".","s","i","g">>

(***************************************************************************)
(* TlsSigApiVer2.  Option<T> is <<>> (None) or <<x>> (Some(x)).            *)
(***************************************************************************)
new(id, key) ==
    /\ sdkappid = id
    /\ tls_ver = TLS_VER_2_0
    /\ secret = key

update_key_clobbering(key) ==
    /\ secret' = key
    /\ sdkappid' = 0
    /\ UNCHANGED tls_ver

update_key_appending(key) ==
    /\ secret' = secret \o key
    /\ UNCHANGED <<sdkappid, tls_ver>>

update_key(key) ==
    /\ secret' = key
    /\ UNCHANGED <<sdkappid, tls_ver>>

raw_content_in_seconds(appid, identifier, curr_time, expire, base64_buf) ==
    K_IDENTIFIER \o <<":">> \o identifier \o <<NL>>
        \o K_SDKAPPID \o <<":">> \o ToDec(appid) \o <<NL>>
        \o K_TIME \o <<":">> \o DisplayI64(timestamp_in_secs(curr_time)) \o <<NL>>
        \o K_EXPIRE \o <<":">> \o DisplayI64(num_seconds_as_i64(expire)) \o <<NL>>
        \o (IF base64_buf # <<>>
            THEN K_USERBUF \o <<":">> \o base64_buf[1] \o <<NL>>
            ELSE <<>>)

raw_content_unterminated(appid, identifier, curr_time, expire, base64_buf) ==
    K_IDENTIFIER \o <<":">> \o identifier \o <<NL>>
        \o K_SDKAPPID \o <<":">> \o ToDec(appid) \o <<NL>>
        \o K_TIME \o <<":">> \o DisplayI64(timestamp_millis(curr_time)) \o <<NL>>
        \o K_EXPIRE \o <<":">> \o DisplayI64(num_milliseconds(expire)) \o <<NL>>
        \o (IF base64_buf # <<>>
            THEN K_USERBUF \o <<":">> \o base64_buf[1]
            ELSE <<>>)

raw_content_without_userbuf(appid, identifier, curr_time, expire, base64_buf) ==
    K_IDENTIFIER \o <<":">> \o identifier \o <<NL>>
        \o K_SDKAPPID \o <<":">> \o ToDec(appid) \o <<NL>>
        \o K_TIME \o <<":">> \o DisplayI64(timestamp_millis(curr_time)) \o <<NL>>
        \o K_EXPIRE \o <<":">> \o DisplayI64(num_milliseconds(expire)) \o <<NL>>

raw_content_identifier_last(appid, identifier, curr_time, expire, base64_buf) ==
    K_SDKAPPID \o <<":">> \o ToDec(appid) \o <<NL>>
        \o K_TIME \o <<":">> \o DisplayI64(timestamp_millis(curr_time)) \o <<NL>>
        \o K_EXPIRE \o <<":">> \o DisplayI64(num_milliseconds(expire)) \o <<NL>>
        \o K_IDENTIFIER \o <<":">> \o identifier \o <<NL>>
        \o (IF base64_buf # <<>>
            THEN K_USERBUF \o <<":">> \o base64_buf[1] \o <<NL>>
            ELSE <<>>)

\* lines 96-107: the text that is authenticated
raw_content(appid, identifier, curr_time, expire, base64_buf) ==
    K_IDENTIFIER \o <<":">> \o identifier \o <<NL>>
        \o K_SDKAPPID \o <<":">> \o ToDec(appid) \o <<NL>>
        \o K_TIME \o <<":">> \o DisplayI64(timestamp_millis(curr_time)) \o <<NL>>
        \o K_EXPIRE \o <<":">> \o DisplayI64(num_milliseconds(expire)) \o <<NL>>
        \o (IF base64_buf # <<>>
            THEN K_USERBUF \o <<":">> \o base64_buf[1] \o <<NL>>
            ELSE <<>>)

\* lines 111-114, with the key as read from self.secret
hmac_digest(key_bytes, raw) == hmac_sign(hmac_Key_new(key_bytes), raw)

hmac_sha256(identifier, curr_time, expire, base64_buf) ==
    hmac_digest(secret,
                raw_content(sdkappid, identifier, curr_time, expire, base64_buf))

\* line 73
base64_buf_of(userbuf) ==
    IF userbuf = <<>> THEN <<>> ELSE <<base64_encode(userbuf[1])>>

dict_unsigned_in_seconds(identifier, dt, expire, userbuf) ==
    LET d1 == json_index_set(<<>>, K_VER, JString(tls_ver))
        d2 == json_index_set(d1, K_IDENTIFIER, JString(identifier))
        d3 == json_index_set(d2, K_SDKAPPID, JNumber(ToDec(sdkappid)))
        d4 == json_index_set(d3, K_EXPIRE,
                             JNumber(DisplayI64(num_seconds_as_i64(expire))))
        d5 == json_index_set(d4, K_TIME,
                             JNumber(DisplayI64(timestamp_in_secs(dt))))
        b  == base64_buf_of(userbuf)
    IN  IF b # <<>> THEN json_index_set(d5, K_USERBUF, JString(b[1])) ELSE d5

\* lines 65-77: the object before the signature is added
dict_unsigned(identifier, dt, expire, userbuf) ==
    LET d1 == json_index_set(<<>>, K_VER, JString(tls_ver))
        d2 == json_index_set(d1, K_IDENTIFIER, JString(identifier))
        d3 == json_index_set(d2, K_SDKAPPID, JNumber(ToDec(sdkappid)))
        d4 == json_index_set(d3, K_EXPIRE,
                             JNumber(DisplayI64(num_milliseconds(expire))))
        d5 == json_index_set(d4, K_TIME,
                             JNumber(DisplayI64(timestamp_millis(dt))))
        b  == base64_buf_of(userbuf)
    IN  IF b # <<>> THEN json_index_set(d5, K_USERBUF, JString(b[1])) ELSE d5

\* line 79
dict_signed(dict, sig) == json_index_set(dict, K_SIG, JDigest(sig))

gen_sign_with_time_sig_before_userbuf(identifier, dt, expire, userbuf) ==
    LET b    == base64_buf_of(userbuf)
        sig  == hmac_sha256(identifier, dt, expire, b)
        d    == dict_signed(dict_unsigned(identifier, dt, expire, <<>>), sig)
        dict == IF b # <<>> THEN json_index_set(d, K_USERBUF, JString(b[1]))
                ELSE d
    IN  [identifier |-> identifier, dt |-> dt, expire |-> expire,
         userbuf |-> userbuf, sig |-> sig, dict |-> dict]

\* lines 65-83: what one call computes.  json is the text that is
\* compressed; the returned token is b64_url_safe::encode of its zlib stream.
gen_sign_with_time(identifier, dt, expire, userbuf) ==
    LET sig  == hmac_sha256(identifier, dt, expire, base64_buf_of(userbuf))
        dict == dict_signed(dict_unsigned(identifier, dt, expire, userbuf), sig)
    IN  [identifier |-> identifier, dt |-> dt, expire |-> expire,
         userbuf |-> userbuf, sig |-> sig, dict |-> dict]

\* the text logged at line 109, and the text serialized at line 83
Raw(call) == call.sig.msg
Json(call) == to_string(call.dict)

(***************************************************************************)
(* Inputs.                                                                 *)
(***************************************************************************)
MOCK_APPID == 1400000000

\* "5bd2850fff3ecb11d7c805251c51ee463a25727bddc2385f3fa8bfee1bb93b5e"
MOCK_KEY ==
    <<53,98,100,50,56,53,48,102,102,102,51,101,99,98,49,49,100,55,99,56,48,
      53,50,53,49,99,53,49,101,101,52,54,51,97,50,53,55,50,55,98,100,100,99,
      50,51,56,53,102,51,102,97,56,98,102,101,101,49,98,98,57,51,98,53,101>>

\* "abc"
MOCK_USERBUF == <<97, 98, 99>>

\* Utc.ymd(2019, 10, 1).and_hms(6, 10, 0)
MockCurrTime == [secs |-> 1569910200, ms |-> 0]

\* Duration::days(180)
Days180 == [secs |-> 15552000, ms |-> 0]

AppIds == {MOCK_APPID, 0}

\* "", "\0" and the test key
Keys == {<<>>, <<0>>, MOCK_KEY}

Id0 == <<"0">>
IdNewline == <<"0", NL>>
IdBlankLine == <<"a", NL, NL, "b">>
\* "0\nTLS.userbuf:YWJj"
IdInjectUserbuf ==
    <<"0",NL,"T","L","S",".","u","s","e","r","b","u","f",":","Y","W","J","j">>
\* "0\nTLS.sdkappid:0\nTLS.time:7\nTLS.expire:-1500"
IdInjectTail ==
    <<"0",NL,"T","L","S",".","s","d","k","a","p","p","i","d",":","0",NL,
      "T","L","S",".","t","i","m","e",":","7",NL,
      "T","L","S",".","e","x","p","i","r","e",":","-","1","5","0","0">>

Identifiers == {Id0, <<>>, IdNewline, IdBlankLine, IdInjectUserbuf, IdInjectTail}

\* the fixture's instant, and 7 ms after the epoch
Times == {MockCurrTime, [secs |-> 0, ms |-> 7]}

\* 180 days, and -1.5 s (chrono: secs = -2, 500 ms on top)
Expires == {Days180, [secs |-> -2, ms |-> 500]}

\* None, Some("abc"), Some("")
Userbufs == {<<>>, <<MOCK_USERBUF>>, << <<>> >>}

Arg(identifier, expire, userbuf) ==
    [identifier |-> identifier, expire |-> expire, userbuf |-> userbuf]

\* the (identifier, expire, userbuf) arguments of the signing calls made
Requests ==
    {Arg(Id0, Days180, u) : u \in Userbufs}
        \cup {Arg(i, Days180, <<>>) :
                  i \in {<<>>, IdNewline, IdInjectUserbuf, IdInjectTail}}
        \cup {Arg(Id0, [secs |-> -2, ms |-> 500], <<MOCK_USERBUF>>)}

Threads == 1..NumThreads

(***************************************************************************)
(* The state after TlsSigApiVer2::new.                                     *)
(***************************************************************************)
Init ==
    /\ \E id \in AppIds, key \in Keys : new(id, key) /\ key_arg = key
    /\ out = <<>>
    /\ prev = <<>>
    /\ rotated = FALSE
    /\ pc = [t \in Threads |-> "idle"]
    /\ frame = [t \in Threads |-> <<>>]
    /\ tok = [t \in Threads |-> <<>>]
    /\ readers = {}
    /\ writer = <<>>
    /\ b64_msg = <<>>
    /\ b64_ret = <<>>

(***************************************************************************)
(* One caller: every call runs to completion before the next.  out and     *)
(* prev are history: prev keeps the call before out when the two have the  *)
(* same identifier, time and expire (the pairs whose signatures are        *)
(* compared), rotated tells whether update_key changed the secret since    *)
(* the last signing call.                                                  *)
(***************************************************************************)
Completed(identifier, dt, expire, userbuf) ==
    [call |-> gen_sign_with_time(identifier, dt, expire, userbuf),
     appid |-> sdkappid, key |-> key_arg, rotated |-> rotated]

Comparable(a, b) ==
    /\ a.call.identifier = b.call.identifier
    /\ a.call.dt = b.call.dt
    /\ a.call.expire = b.call.expire

Returned(r) ==
    /\ out' = <<r>>
    /\ prev' = IF out # <<>> /\ Comparable(out[1], r)
               THEN <<[out[1] EXCEPT !.rotated = FALSE]>> ELSE <<>>
    /\ rotated' = FALSE
    /\ UNCHANGED <<key_arg, conc_vars, b64_vars>>

\* lines 58-87 (the tests call it with a fixed time)
GenSignWithTime(identifier, dt, expire, userbuf) ==
    /\ Returned(Completed(identifier, dt, expire, userbuf))
    /\ UNCHANGED signer_vars

\* lines 46-56: the current time is read, then gen_sign_with_time
GenSign(identifier, expire, userbuf) ==
    \E curr_time \in Times :
        /\ Returned(Completed(identifier, curr_time, expire, userbuf))
        /\ UNCHANGED signer_vars

UpdateKey(key) ==
    /\ update_key(key)
    /\ key_arg' = key
    /\ rotated' = (rotated \/ key # secret)
    /\ UNCHANGED <<out, prev, conc_vars, b64_vars>>

Next ==
    \/ \E r \in Requests : GenSign(r.identifier, r.expire, r.userbuf)
    \/ \E u \in {<<>>, <<MOCK_USERBUF>>} :
           GenSignWithTime(Id0, MockCurrTime, Days180, u)
    \/ \E key \in Keys : UpdateKey(key)

Spec == Init /\ [][Next]_vars

(***************************************************************************)
(* Properties of the one-caller specification Spec.                        *)
(***************************************************************************)
Colon(key) == key \o <<":">>

\* the pieces of a call's canonical message, and the index of its expire line
\* counted from the end (the identifier may itself hold newlines)
RawLines(c) == SplitLines(Raw(c))
ExpireAt(c) == Len(RawLines(c)) - (IF c.userbuf # <<>> THEN 2 ELSE 1)

RECURSIVE JoinLines(_)
JoinLines(ls) ==
    IF Len(ls) = 0 THEN <<>>
    ELSE IF Len(ls) = 1 THEN ls[1]
    ELSE ls[1] \o <<NL>> \o JoinLines(Tail(ls))

\* the fixture of test_hmac_sha256: app id 1400000000, identifier "0",
\* 2019-10-01T06:10:00Z, 180 days
IsFixture(r, userbuf) ==
    /\ r.appid = MOCK_APPID
    /\ r.call.identifier = Id0
    /\ r.call.dt = MockCurrTime
    /\ r.call.expire = Days180
    /\ r.call.userbuf = userbuf

FixtureRawSeconds ==
    <<"T","L","S",".","i","d","e","n","t","i","f","i","e","r",":","0",NL,
      "T","L","S",".","s","d","k","a","p","p","i","d",":","1","4","0","0",
      "0","0","0","0","0","0",NL,"T","L","S",".","t","i","m","e",":","1",
      "5","6","9","9","1","0","2","0","0",NL,"T","L","S",".","e","x","p",
      "i","r","e",":","1","5","5","5","2","0","0","0",NL>>

FixtureRawMillis ==
    <<"T","L","S",".","i","d","e","n","t","i","f","i","e","r",":","0",NL,
      "T","L","S",".","s","d","k","a","p","p","i","d",":","1","4","0","0",
      "0","0","0","0","0","0",NL,"T","L","S",".","t","i","m","e",":","1",
      "5","6","9","9","1","0","2","0","0","0","0","0",NL,"T","L","S",".",
      "e","x","p","i","r","e",":","1","5","5","5","2","0","0","0","0","0",
      "0",NL>>

FixtureUserbufLine ==
    <<"T","L","S",".","u","s","e","r","b","u","f",":","Y","W","J","j",NL>>

\* C1 as claimed: for the fixture, the canonical message carries time and
\* expire in seconds: "...TLS.time:1569910200\nTLS.expire:15552000\n", and with
\* payload "abc" that text followed by "TLS.userbuf:YWJj\n".
C1_FixtureMessageInSeconds ==
    out # <<>> =>
        /\ IsFixture(out[1], <<>>) => Raw(out[1].call) = FixtureRawSeconds
        /\ IsFixture(out[1], <<MOCK_USERBUF>>) =>
               Raw(out[1].call) = FixtureRawSeconds \o FixtureUserbufLine

\* C1 as amended: for the fixture, the canonical message carries time and
\* expire in milliseconds: "...TLS.time:1569910200000\nTLS.expire:15552000000\n",
\* and with payload "abc" that text followed by "TLS.userbuf:YWJj\n".
C1_FixtureMessageInMillis ==
    out # <<>> =>
        /\ IsFixture(out[1], <<>>) => Raw(out[1].call) = FixtureRawMillis
        /\ IsFixture(out[1], <<MOCK_USERBUF>>) =>
               Raw(out[1].call) = FixtureRawMillis \o FixtureUserbufLine

C1_FixtureSigned ==
    /\ out # <<>> /\ prev # <<>>
    /\ IsFixture(prev[1], <<>>)
    /\ IsFixture(out[1], <<MOCK_USERBUF>>)

\* C2: the record that is serialized lists its members in the order TLS.ver,
\* TLS.identifier, TLS.sdkappid, TLS.expire, TLS.time, TLS.userbuf (only with
\* a payload), TLS.sig; TLS.sig is the last member of the serialized text.
C2_RecordFieldOrder ==
    out # <<>> =>
        LET c     == out[1].call
            names == <<K_VER, K_IDENTIFIER, K_SDKAPPID, K_EXPIRE, K_TIME>>
                        \o (IF c.userbuf # <<>> THEN <<K_USERBUF>> ELSE <<>>)
                        \o <<K_SIG>>
            json  == Json(c)
        IN  /\ MemberNames(c.dict) = names
            /\ Len(json) = Len(names)
            /\ \A i \in 1..Len(names) : json[i].name = json_quote(names[i])
            /\ json[Len(json)].name = json_quote(K_SIG)
            /\ json[Len(json)].mac = c.sig

C2_SignedWithAndWithoutBuf ==
    /\ out # <<>> /\ prev # <<>>
    /\ prev[1].call.userbuf = <<>>
    /\ out[1].call.userbuf # <<>>
    /\ Len(out[1].call.dict) = Len(prev[1].call.dict) + 1

\* the message is exactly n newline-terminated, non-empty lines, in the order
\* identifier, sdkappid, time, expire (, userbuf)
FixedLines(c) ==
    LET ls == RawLines(c)
        n  == IF c.userbuf # <<>> THEN 5 ELSE 4
    IN  /\ Len(ls) = n + 1
        /\ ls[n + 1] = <<>>
        /\ \A i \in 1..n : ls[i] # <<>>
        /\ IsPrefix(Colon(K_IDENTIFIER), ls[1])
        /\ IsPrefix(Colon(K_SDKAPPID), ls[2])
        /\ IsPrefix(Colon(K_TIME), ls[3])
        /\ IsPrefix(Colon(K_EXPIRE), ls[4])
        /\ (n = 5 => IsPrefix(Colon(K_USERBUF), ls[5]))

EndsWithOneNewline(s) ==
    /\ Len(s) >= 2
    /\ s[Len(s)] = NL
    /\ s[Len(s) - 1] # NL

\* "TLS.identifier:" + identifier + "\n", then exactly the newline-terminated
\* lines sdkappid, time, expire (, userbuf)
FixedTail(c) ==
    LET ls == RawLines(c)
        e  == ExpireAt(c)
    IN  /\ e >= 4
        /\ ls[Len(ls)] = <<>>
        /\ JoinLines(SubSeq(ls, 1, e - 3)) = Colon(K_IDENTIFIER) \o c.identifier
        /\ IsPrefix(Colon(K_SDKAPPID), ls[e - 2])
        /\ IsPrefix(Colon(K_TIME), ls[e - 1])
        /\ IsPrefix(Colon(K_EXPIRE), ls[e])
        /\ (c.userbuf # <<>> => IsPrefix(Colon(K_USERBUF), ls[e + 1]))
        /\ \A i \in (e - 2)..(Len(ls) - 1) : Len(ls[i]) > 0

\* C3 as claimed: for every identifier the canonical message is the lines
\* identifier, sdkappid, time, expire in this order, then a userbuf line iff a
\* payload was given; it ends with exactly one newline and has no empty line.
C3_LinesForEveryIdentifier ==
    out # <<>> =>
        /\ FixedLines(out[1].call)
        /\ EndsWithOneNewline(Raw(out[1].call))

\* C3 as amended: the same for every identifier that holds no newline; for
\* every identifier the message is "TLS.identifier:" + identifier + "\n"
\* followed by exactly the lines sdkappid, time, expire and, iff a payload was
\* given, userbuf, and it ends with exactly one newline.
C3_LinesForNewlineFreeIdentifier ==
    out # <<>> =>
        /\ NL \notin Range(out[1].call.identifier) => FixedLines(out[1].call)
        /\ FixedTail(out[1].call)
        /\ EndsWithOneNewline(Raw(out[1].call))

C3_SignedWithBufNoNewline ==
    /\ out # <<>> /\ prev # <<>>
    /\ NL \notin Range(out[1].call.identifier)
    /\ out[1].call.userbuf # <<>>
    /\ prev[1].call.userbuf = <<>>

\* C4: the time, expire, app id and identifier written into the record are
\* the same texts as the ones in the canonical message the record's signature
\* was computed over.
C4_RecordMatchesSignedMessage ==
    out # <<>> =>
        LET c  == out[1].call
            ls == RawLines(c)
            e  == ExpireAt(c)
        IN  /\ Member(c.dict, K_SIG) = JDigest(c.sig)
            /\ IsPrefix(Colon(K_TIME), ls[e - 1])
            /\ Member(c.dict, K_TIME) =
                   JNumber(DropPrefix(Colon(K_TIME), ls[e - 1]))
            /\ IsPrefix(Colon(K_EXPIRE), ls[e])
            /\ Member(c.dict, K_EXPIRE) =
                   JNumber(DropPrefix(Colon(K_EXPIRE), ls[e]))
            /\ IsPrefix(Colon(K_SDKAPPID), ls[e - 2])
            /\ Member(c.dict, K_SDKAPPID) =
                   JNumber(DropPrefix(Colon(K_SDKAPPID), ls[e - 2]))
            /\ Member(c.dict, K_IDENTIFIER) =
                   JString(DropPrefix(Colon(K_IDENTIFIER),
                                      JoinLines(SubSeq(ls, 1, e - 3))))

C4_SignedNegativeExpire ==
    /\ out # <<>>
    /\ out[1].call.expire.secs < 0
    /\ out[1].call.dt.ms > 0
    /\ out[1].appid = MOCK_APPID

\* two completed calls that differ at most in payload and key
SameUserbuf == prev[1].call.userbuf = out[1].call.userbuf

\* C5: without a payload the message's last line is the expire line and the
\* record has no TLS.userbuf member; with a payload the message's last line is
\* the TLS.userbuf line and the record has the member, both carrying the
\* payload's standard base64 text ("abc" gives "YWJj"); and under one key a
\* call with a payload and an otherwise identical call without one get
\* different signatures.
C5_PayloadPresence ==
    out # <<>> =>
        LET c    == out[1].call
            ls   == RawLines(c)
            last == ls[Len(ls) - 1]
        IN  /\ c.userbuf = <<>> =>
                /\ IsPrefix(Colon(K_EXPIRE), last)
                /\ ~HasMember(c.dict, K_USERBUF)
            /\ c.userbuf # <<>> =>
                /\ IsPrefix(Colon(K_USERBUF), last)
                /\ HasMember(c.dict, K_USERBUF)
                /\ Member(c.dict, K_USERBUF) =
                       JString(DropPrefix(Colon(K_USERBUF), last))
                /\ (c.userbuf = <<MOCK_USERBUF>> =>
                       Member(c.dict, K_USERBUF).text = <<"Y", "W", "J", "j">>)
                /\ (c.userbuf = << <<>> >> =>
                       Member(c.dict, K_USERBUF).text = <<>>)
            /\ (/\ prev # <<>>
                /\ prev[1].key = out[1].key
                /\ (prev[1].call.userbuf = <<>>) # (c.userbuf = <<>>))
               => prev[1].call.sig # c.sig

C5_SignedWithThenWithoutBuf ==
    /\ out # <<>> /\ prev # <<>>
    /\ prev[1].key = out[1].key
    /\ prev[1].call.userbuf = <<MOCK_USERBUF>>
    /\ out[1].call.userbuf = <<>>
    /\ out[1].call.identifier = Id0

\* the parts of C6 that do not compare two keys: the secret is the key last
\* passed to new / update_key, every call signs with the key in force when it
\* was made, and two calls with the same inputs and the same key get the same
\* digest
KeyInForce ==
    /\ secret = key_arg
    /\ out # <<>> => out[1].call.sig.key = hmac_Key_new(out[1].key)
    /\ (out # <<>> /\ prev # <<>> /\ SameUserbuf /\ prev[1].key = out[1].key)
           => prev[1].call.sig = out[1].call.sig

\* C6 as claimed: ... and for identical other inputs, signing before and
\* after update_key with a different key gives different digests.
C6_DifferentKeyDifferentDigest ==
    /\ KeyInForce
    /\ (out # <<>> /\ prev # <<>> /\ SameUserbuf /\ prev[1].key # out[1].key)
           => prev[1].call.sig # out[1].call.sig

\* C6 as amended: ... and for identical other inputs, signing before and
\* after update_key gives different digests when the two keys have different
\* HMAC key blocks (they differ otherwise than by trailing zero bytes), and
\* the same digest when the key blocks are equal.
C6_DifferentKeyBlockDifferentDigest ==
    /\ KeyInForce
    /\ (out # <<>> /\ prev # <<>> /\ SameUserbuf)
           => ((hmac_Key_new(prev[1].key) # hmac_Key_new(out[1].key))
                   <=> (prev[1].call.sig # out[1].call.sig))

\* signed, rotated to another key and back, signed again
C6_SignedAfterRotatingBack ==
    /\ out # <<>> /\ prev # <<>> /\ SameUserbuf
    /\ out[1].rotated
    /\ prev[1].key = MOCK_KEY
    /\ out[1].key = MOCK_KEY
    /\ prev[1].call.sig = out[1].call.sig

\* C9: no step changes sdkappid or tls_ver, tls_ver is "2.0", and a step that
\* changes the secret is an update_key step (signing changes no field).
C9_SignerFrame ==
    [][/\ sdkappid' = sdkappid
       /\ tls_ver = TLS_VER_2_0
       /\ tls_ver' = TLS_VER_2_0
       /\ (secret' # secret => \E key \in Keys : UpdateKey(key))]_vars

C9_SignedAfterRotation ==
    /\ out # <<>> /\ prev # <<>>
    /\ out[1].rotated
    /\ out[1].key # prev[1].key
    /\ sdkappid = MOCK_APPID

\* every (app id, identifier, time, expire, base64 payload) tuple of the input
\* space, with its canonical message
Tuples == AppIds \X Identifiers \X Times \X Expires
              \X {base64_buf_of(u) : u \in Userbufs}

RawOf == [u \in Tuples |-> raw_content(u[1], u[2], u[3], u[4], u[5])]

\* C10: the canonical message of a call is the message of no other tuple:
\* a tuple whose message equals the call's message is the call's own tuple
\* (identifiers with newlines and with embedded "\nTLS...." lines included).
C10_CanonicalMessageInjective ==
    out # <<>> =>
        LET c == out[1].call
        IN  \A u \in Tuples :
                RawOf[u] = Raw(c) =>
                    u = <<out[1].appid, c.identifier, c.dt, c.expire,
                          base64_buf_of(c.userbuf)>>

C10_SignedInjectedIdentifier ==
    /\ out # <<>>
    /\ out[1].call.identifier = IdInjectUserbuf
    /\ \E u \in Tuples : u[2] = Id0 /\ u[5] # <<>> /\ RawOf[u] # Raw(out[1].call)

(***************************************************************************)
(* Several threads on one signer.  A signing call takes &self and runs in  *)
(* three steps: up to the canonical message (lines 46-77, 96-107), the     *)
(* read of self.secret and the MAC (lines 111-114), and the return (lines  *)
(* 79-86).  update_key takes &mut self; its assignment drops the old       *)
(* String and moves the new one in, so between its two steps the field     *)
(* holds neither key (Torn).  A borrow is taken on entry and released on   *)
(* return; the borrow rules of the two receivers are the entry guards.     *)
(***************************************************************************)
Torn == <<-1>>

ConcKeys == {<<>>, MOCK_KEY}

ConcRequests == {Arg(Id0, Days180, u) : u \in {<<>>, <<MOCK_USERBUF>>}}

\* &self (lines 46, 59, 90): no exclusive borrow is live
can_borrow_shared == writer = <<>>

can_borrow_mut_unchecked == TRUE

\* &mut self (line 25): no other borrow is live
can_borrow_mut == readers = {} /\ writer = <<>>

\* history: every value the secret takes while a call is in progress
Seen(value) ==
    [u \in Threads |->
        IF frame[u] = <<>> THEN <<>>
        ELSE <<[frame[u][1] EXCEPT !.keys_seen = @ \cup {value}]>>]

SignEnter(t, identifier, dt, expire, userbuf) ==
    /\ pc[t] = "idle"
    /\ can_borrow_shared
    /\ readers' = readers \cup {t}
    /\ frame' = [frame EXCEPT ![t] =
           <<[identifier |-> identifier, dt |-> dt, expire |-> expire,
              userbuf |-> userbuf,
              dict |-> dict_unsigned(identifier, dt, expire, userbuf),
              raw |-> raw_content(sdkappid, identifier, dt, expire,
                                  base64_buf_of(userbuf)),
              sig |-> NoMac,
              keys_seen |-> {secret}]>>]
    /\ pc' = [pc EXCEPT ![t] = "hmac"]
    /\ UNCHANGED <<signer_vars, seq_vars, tok, writer, b64_vars>>

SignMac(t) ==
    /\ pc[t] = "hmac"
    /\ frame' = [frame EXCEPT ![t] =
           <<[frame[t][1] EXCEPT !.sig = hmac_digest(secret, frame[t][1].raw)]>>]
    /\ pc' = [pc EXCEPT ![t] = "ret"]
    /\ UNCHANGED <<signer_vars, seq_vars, tok, readers, writer, b64_vars>>

SignReturn(t) ==
    /\ pc[t] = "ret"
    /\ tok' = [tok EXCEPT ![t] =
           <<[frame[t][1] EXCEPT !.dict = dict_signed(@, frame[t][1].sig)]>>]
    /\ frame' = [frame EXCEPT ![t] = <<>>]
    /\ readers' = readers \ {t}
    /\ pc' = [pc EXCEPT ![t] = "idle"]
    /\ UNCHANGED <<signer_vars, seq_vars, writer, b64_vars>>

RotateEnter(t, key) ==
    /\ pc[t] = "idle"
    /\ can_borrow_mut
    /\ writer' = <<[t |-> t, key |-> key]>>
    /\ secret' = Torn
    /\ frame' = Seen(Torn)
    /\ UNCHANGED <<sdkappid, tls_ver, seq_vars, pc, tok, readers, b64_vars>>

RotateExit(t) ==
    /\ writer # <<>>
    /\ writer[1].t = t
    /\ update_key(writer[1].key)
    /\ writer' = <<>>
    /\ frame' = Seen(writer[1].key)
    /\ UNCHANGED <<seq_vars, pc, tok, readers, b64_vars>>

ConcInit == Init /\ sdkappid = MOCK_APPID /\ secret \in ConcKeys

ConcNext ==
    \/ \E t \in Threads, r \in ConcRequests :
           SignEnter(t, r.identifier, MockCurrTime, r.expire, r.userbuf)
    \/ \E t \in Threads : SignMac(t)
    \/ \E t \in Threads : SignReturn(t)
    \/ \E t \in Threads, key \in ConcKeys : RotateEnter(t, key)
    \/ \E t \in Threads : RotateExit(t)

ConcSpec == ConcInit /\ [][ConcNext]_vars

\* C7: update_key excludes every signing call in progress: while a thread is
\* inside update_key no thread holds a shared borrow, the secret is torn only
\* inside update_key, and every token's digest is the MAC of that call's own
\* canonical message under one key, which was the secret for the whole call.
C7_RotationExcludesSigning ==
    /\ writer # <<>> => readers = {}
    /\ secret = Torn => writer # <<>>
    /\ \A t \in Threads :
        /\ t \in readers <=> pc[t] \in {"hmac", "ret"}
        /\ frame[t] # <<>> => frame[t][1].keys_seen = {secret}
        /\ tok[t] # <<>> =>
               LET r == tok[t][1]
               IN  /\ r.raw = raw_content(sdkappid, r.identifier, r.dt, r.expire,
                                          base64_buf_of(r.userbuf))
                   /\ \E key \in ConcKeys :
                          /\ r.keys_seen = {key}
                          /\ r.sig = hmac_digest(key, r.raw)
                          /\ Member(r.dict, K_SIG) = JDigest(r.sig)

\* two tokens issued under different keys, and both threads signing again
C7_SignedAcrossRotation ==
    /\ tok[1] # <<>> /\ tok[2] # <<>>
    /\ tok[1][1].keys_seen = {MOCK_KEY}
    /\ tok[2][1].keys_seen = {<<>>}
    /\ readers = {1, 2}
    /\ pc[1] = "ret" /\ pc[2] = "hmac"

(***************************************************************************)
(* b64_url_safe::encode on its own: the caller encodes byte strings, each  *)
(* one byte longer than the last.                                          *)
(***************************************************************************)
\* 0x00, 'a', 0xBE, 0xEF, 0xFB, 0xFF: they reach '+', '/' and both paddings
ByteVals == {0, 97, 190, 239, 251, 255}

Encode(msg) ==
    /\ b64_msg' = msg
    /\ b64_ret' = encode(msg)
    /\ UNCHANGED <<signer_vars, seq_vars, conc_vars>>

B64Init == Init /\ sdkappid = MOCK_APPID /\ secret = MOCK_KEY

B64Next ==
    \E b \in ByteVals :
        /\ Len(b64_msg) < MaxLen
        /\ Encode(Append(b64_msg, b))

B64Spec == B64Init /\ [][B64Next]_vars

\* the decoder the claim describes: the three substitutions reversed, then
\* standard base64 decoding of padded text
unsubstitute(s) ==
    Replace(Replace(Replace(s, "*", "+"), "-", "/"), "_", "=")

IsB64Digit(c) == \E i \in 1..64 : B64Alphabet[i] = c

B64Value(c) == (CHOOSE i \in 1..64 : B64Alphabet[i] = c) - 1

\* quads of digits, the last one possibly ending in "=" or "=="
WellPadded(s) ==
    /\ Len(s) % 4 = 0
    /\ \A i \in 1..Len(s) :
           \/ IsB64Digit(s[i])
           \/ /\ s[i] = "="
              /\ i >= Len(s) - 1
              /\ (i = Len(s) - 1 => s[Len(s)] = "=")

RECURSIVE base64_decode(_)
base64_decode(s) ==
    IF Len(s) = 0 THEN <<>>
    ELSE LET a == B64Value(s[1])
             b == B64Value(s[2])
         IN  IF s[3] = "=" THEN <<a * 4 + b \div 16>>
             ELSE IF s[4] = "="
             THEN <<a * 4 + b \div 16,
                    (b % 16) * 16 + B64Value(s[3]) \div 4>>
             ELSE <<a * 4 + b \div 16,
                    (b % 16) * 16 + B64Value(s[3]) \div 4,
                    (B64Value(s[3]) % 4) * 64 + B64Value(s[4])>>
                      \o base64_decode(SubSeq(s, 5, Len(s)))

\* C8: the token holds none of '+', '/', '='; reversing the three
\* substitutions gives padded standard base64 text, and decoding that text
\* gives back exactly the encoded bytes.
C8_SubstitutionIsLossless ==
    /\ Range(b64_ret) \cap {"+", "/", "="} = {}
    /\ WellPadded(unsubstitute(b64_ret))
    /\ unsubstitute(b64_ret) = base64_encode(b64_msg)
    /\ base64_decode(unsubstitute(b64_ret)) = b64_msg

C8_EncodedAllThreeSubstitutes ==
    /\ {"*", "-", "_"} \subseteq Range(b64_ret)
    /\ Len(b64_msg) = 2

====
